---------------------------- MODULE Spec2Model ----------------------------
(***************************************************************************)
(* Model of src-tauri/src/lib.rs: the two commands (greet,                 *)
(* force_close_app), the setup hook that attaches the close-request        *)
(* listener to the window labelled "main", and run(), which hands control  *)
(* to the host event loop.                                                 *)
(*                                                                         *)
(* Text is a sequence of one-character strings, so that format! can be     *)
(* modelled as the scan of its template that it is.                        *)
(***************************************************************************)
EXTENDS Naturals, Sequences, FiniteSets

\* ------------------------------------------------------------------ bounds
\* Longest name passed to greet.
MaxNameLen == 2
\* Number of command invocations and window events the host dispatches.
MaxDispatch == 3

\* Characters names are drawn from: the ones a formatting routine could take
\* for syntax.  To format! the braces are syntax in its literal only, and '%'
\* is an ordinary character everywhere.
Alphabet == {"{", "}", "%"}

RECURSIVE SeqsUpTo(_)
SeqsUpTo(n) ==
    IF n = 0 THEN {<<>>}
    ELSE LET shorter == SeqsUpTo(n - 1)
         IN  shorter \cup {Append(s, c) : s \in {t \in shorter : Len(t) = n - 1}, c \in Alphabet}

Names == SeqsUpTo(MaxNameLen)

\* ------------------------------------------------------------------ greet
\* The literal of the format! call in greet.
Template ==
    <<"H", "e", "l", "l", "o", ",", " ", "{", "}", "!", " ",
      "Y", "o", "u", "'", "v", "e", " ", "b", "e", "e", "n", " ",
      "g", "r", "e", "e", "t", "e", "d", " ", "f", "r", "o", "m", " ",
      "R", "u", "s", "t", "!">>

\* format! with one positional argument: the template is scanned once, "{}"
\* is replaced by the argument's Display text, "{{" and "}}" are the escapes
\* of the braces, every other character is copied.  The argument's text is
\* emitted as it is and is not scanned.
RECURSIVE Format(_, _, _)
Format(t, i, arg) ==
    IF i > Len(t) THEN <<>>
    ELSE IF i < Len(t) /\ t[i] = "{" /\ t[i + 1] = "}"
         THEN arg \o Format(t, i + 2, arg)
    ELSE IF i < Len(t) /\ t[i] = "{" /\ t[i + 1] = "{"
         THEN <<"{">> \o Format(t, i + 2, arg)
    ELSE IF i < Len(t) /\ t[i] = "}" /\ t[i + 1] = "}"
         THEN <<"}">> \o Format(t, i + 2, arg)
    ELSE <<t[i]>> \o Format(t, i + 1, arg)

\* A greet that pastes the name into the template before the scan, so the
\* name's braces are read as format syntax.
greetRescan(name) == Format(Format(Template, 1, name), 1, <<>>)

greet(name) == Format(Template, 1, name)

\* greet's reply to each name, computed once.
GreetReply == [n \in Names |-> greet(n)]

\* ------------------------------------------------------- force_close_app
\* An exit call that passes a failure status.
ExitStatusOne == 0 + 1

\* The argument of app_handle.exit.
ExitStatus == 0

\* A force_close_app that reports a failure.
ForceCloseErr == "Err"

\* The value force_close_app returns after the exit call.
ForceCloseResult == "Ok"

\* ------------------------------------------------------------ setup hook
\* A setup that does not propagate the missing window.
SetupAlwaysOk(found) == "Ok"

\* get_webview_window("main").ok_or(...)?  ... Ok(())
SetupResult(found) == IF found THEN "Ok" ELSE "Err"

\* Window events the host delivers; the listener names only CloseRequested.
EventKinds == {"CloseRequested", "Resized", "Moved", "Focused"}

\* A listener that never calls prevent_close.
ListenerPreventsNothing(kind) == FALSE

\* A listener that matches the wrong event.
ListenerPreventsFocused(kind) == kind = "Focused"

\* A listener that suppresses every event.
ListenerPreventsAll(kind) == TRUE

\* The listener closure: TRUE when it calls api.prevent_close().
OnWindowEvent(kind) == kind = "CloseRequested"

\* A listener that detaches after its first close request.
ListenerOnce(h, kind) == IF kind = "CloseRequested" THEN "Unregistered" ELSE h

\* on_window_event attaches the listener for good: handling an event leaves
\* it attached.
ListenerAfter(h, kind) == h


\* ------------------------------------------------------------------ state
VARIABLES
    pc,            \* where run() is: "start", "setup_ok", "setup_err",
                   \* "running" (event loop), "panicked", "exited"
    mainExists,    \* whether the host built a window labelled "main"
    hook,          \* the close-intercept hook: "Unregistered" | "Registered"
    windowOpen,    \* whether the main window is open
    exitRequests,  \* exit codes handed to the event loop, not yet acted on
    exitCode,      \* {} while the process lives, {c} once it exited with c
    nSpawned,      \* force_close_app tasks spawned, body not yet run
    nIssued,       \* force_close_app tasks past the exit call, not yet returned
    nReturned,     \* force_close_app tasks that returned
    fcaResults,    \* the values force_close_app tasks returned
    last,          \* the handler the host dispatched last, with what it saw
    nHandled,      \* number of dispatches so far
    firstGreet     \* the first greet dispatch, kept for comparison

vars == <<pc, mainExists, hook, windowOpen, exitRequests, exitCode, nSpawned,
          nIssued, nReturned, fcaResults, last, nHandled, firstGreet>>

NoHandler ==
    [h |-> "none", name |-> <<>>, res |-> <<>>, kind |-> "none",
     prevented |-> FALSE, defaultRan |-> FALSE]

\* Before run(): the host configuration either declares a window "main" or
\* does not; nothing is registered, nothing has been dispatched.
Init ==
    /\ pc = "start"
    /\ mainExists \in BOOLEAN
    /\ hook = "Unregistered"
    /\ windowOpen = mainExists
    /\ exitRequests = {}
    /\ exitCode = {}
    /\ nSpawned = 0
    /\ nIssued = 0
    /\ nReturned = 0
    /\ fcaResults = {}
    /\ last = NoHandler
    /\ nHandled = 0
    /\ firstGreet = NoHandler

\* ---------------------------------------------------------------- startup
\* The setup closure: look the window up, attach the listener, return Ok;
\* or return the error of ok_or without attaching anything.
Setup ==
    /\ pc = "start"
    /\ LET r == SetupResult(mainExists)
       IN  /\ pc' = IF r = "Ok" THEN "setup_ok" ELSE "setup_err"
           /\ hook' = IF r = "Ok" THEN "Registered" ELSE hook
    /\ UNCHANGED <<mainExists, windowOpen, exitRequests, exitCode, nSpawned,
                   nIssued, nReturned, fcaResults, last, nHandled, firstGreet>>

\* .run(...) after a successful setup: the event loop starts dispatching.
RunLoop ==
    /\ pc = "setup_ok"
    /\ pc' = "running"
    /\ UNCHANGED <<mainExists, hook, windowOpen, exitRequests, exitCode,
                   nSpawned, nIssued, nReturned, fcaResults, last, nHandled,
                   firstGreet>>

\* The setup error surfaces from .run(...).expect(...): the process aborts
\* with a panic.
ExpectPanic ==
    /\ pc = "setup_err"
    /\ pc' = "panicked"
    /\ UNCHANGED <<mainExists, hook, windowOpen, exitRequests, exitCode,
                   nSpawned, nIssued, nReturned, fcaResults, last, nHandled,
                   firstGreet>>

\* ------------------------------------------------------------- event loop
\* An event loop that dispatches before the setup hook has run.
DispatchingBeforeSetup == pc \in {"start", "running"}

\* Commands and window events are dispatched by the event loop only.
Dispatching == pc = "running"

\* A greet whose reply is built from the name of the previous greet.
GreetInvokeStale(name) ==
    /\ Dispatching
    /\ nHandled < MaxDispatch
    /\ LET rec == [NoHandler EXCEPT !.h = "greet", !.name = name,
                       !.res = GreetReply[IF last.h = "greet" THEN last.name ELSE name]]
       IN  /\ last' = rec
           /\ firstGreet' = IF firstGreet.h = "none" THEN rec ELSE firstGreet
    /\ nHandled' = nHandled + 1
    /\ UNCHANGED <<pc, mainExists, hook, windowOpen, exitRequests, exitCode,
                   nSpawned, nIssued, nReturned, fcaResults>>

\* The host invokes greet(name) and takes its reply.
GreetInvoke(name) ==
    /\ Dispatching
    /\ nHandled < MaxDispatch
    /\ LET rec == [NoHandler EXCEPT !.h = "greet", !.name = name,
                                    !.res = GreetReply[name]]
       IN  /\ last' = rec
           /\ firstGreet' = IF firstGreet.h = "none" THEN rec ELSE firstGreet
    /\ nHandled' = nHandled + 1
    /\ UNCHANGED <<pc, mainExists, hook, windowOpen, exitRequests, exitCode,
                   nSpawned, nIssued, nReturned, fcaResults>>

\* The host invokes force_close_app: an async command, so its body is a task
\* that runs beside the event loop.
ForceCloseInvoke ==
    /\ Dispatching
    /\ nHandled < MaxDispatch
    /\ nSpawned' = nSpawned + 1
    /\ last' = [NoHandler EXCEPT !.h = "force_close_app"]
    /\ nHandled' = nHandled + 1
    /\ UNCHANGED <<pc, mainExists, hook, windowOpen, exitRequests, exitCode,
                   nIssued, nReturned, fcaResults, firstGreet>>

\* app_handle.exit(0): the host either ends the process at once or hands the
\* exit request to the event loop and returns to the task.
ForceCloseExit ==
    /\ pc = "running"
    /\ nSpawned > 0
    /\ nSpawned' = nSpawned - 1
    /\ nIssued' = nIssued + 1
    /\ \/ /\ exitRequests' = exitRequests \cup {ExitStatus}
          /\ UNCHANGED <<pc, exitCode>>
       \/ /\ pc' = "exited"
          /\ exitCode' = {ExitStatus}
          /\ UNCHANGED exitRequests
    /\ UNCHANGED <<mainExists, hook, windowOpen, nReturned, fcaResults, last,
                   nHandled, firstGreet>>

\* Ok(()): the task returns its result to the caller.
ForceCloseReturn ==
    /\ pc = "running"
    /\ nIssued > 0
    /\ nIssued' = nIssued - 1
    /\ nReturned' = nReturned + 1
    /\ fcaResults' = fcaResults \cup {ForceCloseResult}
    /\ UNCHANGED <<pc, mainExists, hook, windowOpen, exitRequests, exitCode,
                   nSpawned, last, nHandled, firstGreet>>

\* The event loop acts on an exit request: the process ends with its code.
EventLoopExit ==
    /\ pc = "running"
    /\ \E c \in exitRequests :
          /\ pc' = "exited"
          /\ exitCode' = {c}
    /\ exitRequests' = {}
    /\ UNCHANGED <<mainExists, hook, windowOpen, nSpawned, nIssued, nReturned,
                   fcaResults, last, nHandled, firstGreet>>

\* The host delivers a window event to the main window.  An attached
\* listener runs first; the default handling follows unless the listener
\* prevented it.  The default handling of a close request closes the window,
\* and the host ends the process with status 0 when its last window closed.
HostWindowEvent(kind) ==
    /\ Dispatching
    /\ nHandled < MaxDispatch
    /\ windowOpen
    /\ LET prevented == hook = "Registered" /\ OnWindowEvent(kind)
           closes    == kind = "CloseRequested" /\ ~prevented
       IN  /\ last' = [NoHandler EXCEPT !.h = "window_event", !.kind = kind,
                           !.prevented = prevented, !.defaultRan = ~prevented]
           /\ windowOpen' = IF closes THEN FALSE ELSE windowOpen
           /\ pc' = IF closes THEN "exited" ELSE pc
           /\ exitCode' = IF closes THEN {0} ELSE exitCode
    /\ hook' = ListenerAfter(hook, kind)
    /\ nHandled' = nHandled + 1
    /\ UNCHANGED <<mainExists, exitRequests, nSpawned, nIssued, nReturned,
                   fcaResults, firstGreet>>

Next ==
    \/ Setup
    \/ RunLoop
    \/ ExpectPanic
    \/ \E name \in Names : GreetInvoke(name)
    \/ ForceCloseInvoke
    \/ ForceCloseExit
    \/ ForceCloseReturn
    \/ EventLoopExit
    \/ \E kind \in EventKinds : HostWindowEvent(kind)

Spec == Init /\ [][Next]_vars

\* The async runtime runs every spawned task and the event loop handles
\* every request handed to it.
FairSpec == Spec /\ WF_vars(ForceCloseExit) /\ WF_vars(EventLoopExit)

\* ----------------------------------------------------------------- claims
\* The step in which the host dispatches a close request to the main window.
CloseRequestStep ==
    /\ nHandled' = nHandled + 1
    /\ last'.h = "window_event"
    /\ last'.kind = "CloseRequested"

\* C1: once startup has succeeded, every close request delivered to the main
\* window is suppressed: the listener prevents the default close, the window
\* stays open and the process keeps running.
C1_CloseRequestSuppressed ==
    [][CloseRequestStep =>
          /\ last'.prevented
          /\ ~last'.defaultRan
          /\ windowOpen'
          /\ pc' = "running"
          /\ exitCode' = {}]_vars

C1_Witness ==
    /\ last.h = "window_event"
    /\ last.kind = "CloseRequested"
    /\ windowOpen
    /\ pc = "running"
    /\ nHandled = MaxDispatch

\* Some force_close_app task has made its exit call.
ExitCalled == nIssued + nReturned > 0

\* Some force_close_app has been invoked.
ForceCloseInvoked == nSpawned + nIssued + nReturned > 0

C3_MissingMainAbortsStartup ==
    ~mainExists =>
        /\ hook = "Unregistered"
        /\ pc \in {"start", "setup_err", "panicked"}
        /\ nHandled = 0
        /\ last = NoHandler
        /\ nSpawned + nIssued + nReturned = 0

C3_Witness == ~mainExists /\ pc = "panicked" /\ hook = "Unregistered"

\* C4: the process ends only through force_close_app: an ended process has
\* a force_close_app exit call behind it, and the step that ends it is never
\* the dispatch of a greet or of a window event.
C4_OnlyForceCloseTerminates ==
    /\ [](pc = "exited" => ExitCalled)
    /\ [][(pc # "exited" /\ pc' = "exited") => nHandled' = nHandled]_vars

C4_Witness ==
    /\ pc = "exited"
    /\ last.h = "window_event"
    /\ last.kind = "CloseRequested"
    /\ ExitCalled

HelloPrefix == <<"H", "e", "l", "l", "o", ",", " ">>

GreetedSuffix ==
    <<"!", " ", "Y", "o", "u", "'", "v", "e", " ", "b", "e", "e", "n", " ",
      "g", "r", "e", "e", "t", "e", "d", " ", "f", "r", "o", "m", " ",
      "R", "u", "s", "t", "!">>

\* C5: for every name, the empty one and those with '{', '}' and '%'
\* included, greet replies "Hello, " followed by the name unchanged followed
\* by "! You've been greeted from Rust!".
C5_GreetVerbatim ==
    last.h = "greet" => last.res = HelloPrefix \o last.name \o GreetedSuffix

C5_Witness ==
    /\ last.h = "greet"
    /\ last.name = <<"{", "}">>
    /\ firstGreet.name = <<>>
    /\ firstGreet.res = HelloPrefix \o GreetedSuffix

\* C6: the hook is Unregistered or Registered; its only change is from
\* Unregistered to Registered, made by the setup step; from then on it is
\* Registered in every state.
C6_HookRegisteredForGood ==
    /\ [](hook \in {"Unregistered", "Registered"})
    /\ [](pc \in {"setup_ok", "running", "exited"} => hook = "Registered")
    /\ [][hook' # hook =>
            /\ hook = "Unregistered"
            /\ hook' = "Registered"
            /\ pc = "start"
            /\ pc' = "setup_ok"]_vars

C6_Witness ==
    /\ hook = "Registered"
    /\ pc = "exited"
    /\ last.kind = "CloseRequested"

\* C7: nothing is dispatched while the hook is Unregistered: every dispatch
\* of a command or of a window event happens with the listener attached.
C7_NoDispatchBeforeRegistration ==
    /\ [](hook = "Unregistered" => nHandled = 0 /\ last = NoHandler)
    /\ [][nHandled' # nHandled => hook = "Registered"]_vars

C7_Witness ==
    /\ hook = "Registered"
    /\ nHandled = 1
    /\ last.kind = "CloseRequested"
    /\ last.prevented

\* The step in which the host dispatches a window event of another kind.
OtherEventStep ==
    /\ nHandled' = nHandled + 1
    /\ last'.h = "window_event"
    /\ last'.kind # "CloseRequested"

\* C8: for a window event that is not a close request the listener does
\* nothing: it prevents nothing, the default handling runs, and the window,
\* the hook and the process stay as they were.
C8_OtherEventsUntouched ==
    [][OtherEventStep =>
          /\ ~last'.prevented
          /\ last'.defaultRan
          /\ UNCHANGED <<windowOpen, hook, pc, exitCode, exitRequests>>]_vars

C8_Witness ==
    /\ last.h = "window_event"
    /\ last.kind = "Resized"
    /\ ~last.prevented
    /\ windowOpen

\* C9: force_close_app never fails: every result it returns is Ok, it
\* returns only after its exit call, and the exit call asks for status 0.
C9_ForceCloseNeverFails ==
    /\ [](fcaResults \subseteq {"Ok"})
    /\ [][nReturned' # nReturned =>
            /\ nIssued > 0
            /\ nIssued' = nIssued - 1
            /\ nReturned' = nReturned + 1]_vars
    /\ [][nIssued' > nIssued => (0 \in exitRequests' \/ exitCode' = {0})]_vars

C9_Witness ==
    /\ fcaResults = {"Ok"}
    /\ nReturned = 2

\* The step in which the host dispatches greet.
GreetStep ==
    /\ nHandled' = nHandled + 1
    /\ last'.h = "greet"

\* C10: greet changes nothing of the application: hook, window, process and
\* the force_close_app tasks are as before; and its reply to a name is the
\* reply the first greet of that name got, whatever happened in between.
C10_GreetIsPure ==
    [][GreetStep =>
          /\ UNCHANGED <<hook, windowOpen, pc, exitCode, exitRequests,
                         nSpawned, nIssued, nReturned, fcaResults>>
          /\ (last'.name = firstGreet'.name => last'.res = firstGreet'.res)]_vars

C10_Witness ==
    /\ last.h = "greet"
    /\ firstGreet.name = last.name
    /\ nHandled = MaxDispatch
    /\ exitRequests # {}
    /\ hook = "Registered"
    /\ windowOpen

=============================================================================
